---- MODULE Spec2Model ----
(***************************************************************************)
(* Model of the scrape-parse-join pipeline of crawlercm:                   *)
(*   services/scrape_reports.py   the parsers, the three report fetchers,  *)
(*                                combine_data, get_combined_report_data   *)
(*   services/scrape_pending_orders.py  its nested _parse_float            *)
(*   schemas/reports_schemas.py   the record types and their date fields   *)
(*   api/routes/report_router.py  the request handlers                     *)
(*   core/session_manager.py      lifespan                                 *)
(*                                                                         *)
(* Five specifications share the variables:                                *)
(*   Spec         the process from its start: lifespan, then one request   *)
(*                at a time through the router                             *)
(*   SpecReport   one call of get_combined_report_data: the three fetchers *)
(*                run as concurrent tasks, then gather, combine and the    *)
(*                HTTP answer                                              *)
(*   SpecCombine  the combine stage on bounded input lists, run twice      *)
(*   SpecFetch    one fetcher call on a bounded HTTP response              *)
(*   SpecParse    one parser call on a bounded cell text                   *)
(***************************************************************************)
EXTENDS Integers, Sequences, FiniteSets, TLC

VARIABLES
    endpoint,       \* the route being served, "none" between requests
    pc,             \* "starting" | "exited" | "idle" | "fetching" | "responded"
    task,           \* per source: the fetcher coroutine's state and outcome
    materials_map,  \* the dict built by the latest combine_data call
    combine_ran,    \* combine_data was called by the current request
    combine_error,  \* the except branch of combine_data was taken
    ret,            \* outcome of get_combined_report_data
    prev_ret,       \* outcome of the previous run on the same inputs
    rerun,          \* the current run is a second run on the same inputs
    http,           \* the answer the handler gives to the HTTP client
    fetch_src,      \* SpecFetch: the fetcher called, "none" before the call
    fetch_resp,     \* SpecFetch: the response its HTTP call met
    fetch_out,      \* SpecFetch: what the fetcher gave its caller
    parse_fn,       \* SpecParse: the parser called, "none" before the call
    parse_in,       \* SpecParse: its argument
    parse_out,      \* SpecParse: what it gave its caller
    app_state,      \* the attributes stored on app.state
    today,          \* date.today(), as a day number
    init_date_str,  \* report_router.init_date_str, set when the module loads
    end_date_str,   \* report_router.end_date_str, set when the module loads
    init_date,      \* the handler's local init_date after defaulting
    end_date,       \* the handler's local end_date after defaulting
    sent_dates,     \* the (init, end) pair the handler passes to the fetchers
    params          \* the (init_date, end_date) query parameters of the request

parse_vars == <<parse_fn, parse_in, parse_out>>
module_vars == <<app_state, init_date_str, end_date_str>>
request_vars == <<init_date, end_date, sent_dates, params>>

vars == <<endpoint, pc, task, materials_map, combine_ran, combine_error, ret,
          prev_ret, rerun, http, fetch_src, fetch_resp, fetch_out, parse_vars,
          module_vars, today, request_vars>>

(***************************************************************************)
(* Bounds                                                                  *)
(***************************************************************************)
MaxSales == 2
MaxOrders == 2
MaxMaterials == 2
MaxRows == 2
MaxPipeRows == 1
MaxDays == 2
MaxLen == 3
MaxGroups == 1
MaxFrac == 4

(***************************************************************************)
(* Values                                                                  *)
(***************************************************************************)
Sources == {"sales", "prod", "materials"}
Ops == {"A", "B"}
Vals == {"v1", "v2"}

\* Sequences over S of length at most n.
SeqUpTo(S, n) == UNION {[1..k -> S] : k \in 0..n}

\* What a call gives its caller: a returned value or a raised exception.
\* caught is the aiohttp.ClientError a fetcher logged and swallowed.
NoOutcome == [kind |-> "none", val |-> <<>>, exc |-> "none", caught |-> "none"]
Ret(v) == [kind |-> "return", val |-> v, exc |-> "none", caught |-> "none"]
Raise(e) == [kind |-> "raise", val |-> <<>>, exc |-> e, caught |-> "none"]
Suppressed(e) == [kind |-> "return", val |-> <<>>, exc |-> "none", caught |-> e]

HasAttr(r, f) == f \in DOMAIN r

(***************************************************************************)
(* schemas/reports_schemas.py                                              *)
(***************************************************************************)
\* datetime.date as (year, month, day); NoDate is Python's None where a date
\* is expected.
Date(y, m, d) == [year |-> y, month |-> m, day |-> d]
NoDate == Date(0, 0, 0)

\* The Optional[date] fields default to None.
SalesReportItem(o, n) ==
    [cliente |-> "cliente", negociacao |-> n, tipo_servico |-> "servico",
     emissao_pv |-> NoDate,
     pedido_cliente |-> "pedido", op |-> o, numero_projeto |-> "projeto",
     codigo |-> "codigo", produto |-> "produto", previsao |-> NoDate,
     qtde_pendente |-> 0, estoque |-> 0, valor_unitario |-> 0, ipi |-> 0,
     valor_total |-> 0]

PendingOrdersItem(o, e) ==
    [op |-> o, cliente |-> "cliente", codigo |-> "codigo",
     produto |-> "produto", criacao |-> NoDate, prazo |-> NoDate, etapa |-> e]

PendingMaterialsItem(o, c) ==
    [criacao |-> NoDate, servico |-> "servico", codigo |-> c,
     material |-> "material", op |-> o, produto |-> "produto",
     previsao_op |-> NoDate, situacao |-> "situacao", previsao_mp |-> NoDate]

\* The consolidated record: the constructor call of combine_data.
FilteredSalesReportItem(sales_item, etapa_producao, matching_materials) ==
    [negociacao |-> sales_item.negociacao,
     pedido_cliente |-> sales_item.pedido_cliente,
     op |-> sales_item.op,
     tipo_servico |-> sales_item.tipo_servico,
     numero_projeto |-> sales_item.numero_projeto,
     codigo |-> sales_item.codigo,
     produto |-> sales_item.produto,
     previsao |-> sales_item.previsao,
     qtde_pendente |-> sales_item.qtde_pendente,
     valor_unitario |-> sales_item.valor_unitario,
     ipi |-> sales_item.ipi,
     valor_total |-> sales_item.valor_total,
     etapa |-> etapa_producao,
     materiais_pendentes |-> matching_materials]

\* The attributes of a sales item that combine_data reads.
SalesAttrsRead ==
    {"negociacao", "pedido_cliente", "op", "tipo_servico", "numero_projeto",
     "codigo", "produto", "previsao", "qtde_pendente", "valor_unitario",
     "ipi", "valor_total"}

(***************************************************************************)
(* Python dicts: a function over the keys present.                         *)
(***************************************************************************)
EmptyDict == [k \in {} |-> <<>>]
DictGet(d, k, default) == IF k \in DOMAIN d THEN d[k] ELSE default
DictSet(d, k, v) == [x \in (DOMAIN d) \cup {k} |-> IF x = k THEN v ELSE d[x]]

(***************************************************************************)
(* services/scrape_reports.py: combine_data                                *)
(***************************************************************************)
\* A dict that outlives the call: what materials_map would start from if it
\* were module state instead of a fresh local.
stale_defaultdict == materials_map

\* materials_map = defaultdict(list)
defaultdict_list == EmptyDict

\* A map that keeps the first order of each op (dict.setdefault).
RECURSIVE orders_map_first_wins(_, _, _)
orders_map_first_wins(d, pending_orders, i) ==
    IF i > Len(pending_orders) THEN d
    ELSE orders_map_first_wins(
             IF pending_orders[i].op \in DOMAIN d THEN d
             ELSE DictSet(d, pending_orders[i].op, pending_orders[i]),
             pending_orders, i + 1)

\* orders_map = {order.op: order for order in pending_orders}: a later order
\* with the same op replaces the earlier one.
RECURSIVE orders_map_of(_, _, _)
orders_map_of(d, pending_orders, i) ==
    IF i > Len(pending_orders) THEN d
    ELSE orders_map_of(DictSet(d, pending_orders[i].op, pending_orders[i]),
                       pending_orders, i + 1)

\* for material in pending_materials: materials_map[material.op].append(material)
\* The loop stops where reading material.op raises.
RECURSIVE fill_materials_map(_, _, _)
fill_materials_map(d, pending_materials, i) ==
    IF i > Len(pending_materials) THEN d
    ELSE IF ~HasAttr(pending_materials[i], "op") THEN d
    ELSE LET material == pending_materials[i]
         IN  fill_materials_map(
                 DictSet(d, material.op,
                         Append(DictGet(d, material.op, <<>>), material)),
                 pending_materials, i + 1)

\* Resolves etapa from some order of the map whatever its op: the join key
\* is ignored.
etapa_ignoring_op(orders_map, current_op) ==
    LET usable == {k \in DOMAIN orders_map : HasAttr(orders_map[k], "etapa")}
    IN  IF usable = {} THEN "N/A"
        ELSE orders_map[CHOOSE k \in usable : TRUE].etapa

\* matching_order = orders_map.get(current_op)
\* etapa_producao = matching_order.etapa if matching_order else "N/A"
etapa_of(orders_map, current_op) ==
    IF current_op \in DOMAIN orders_map THEN orders_map[current_op].etapa
    ELSE "N/A"

\* Looks the materials up under another op of the map when there is one.
materials_of_any_op(mmap, current_op) ==
    IF DOMAIN mmap = {} THEN <<>>
    ELSE mmap[CHOOSE k \in DOMAIN mmap : k # current_op \/ DOMAIN mmap = {k}]

\* matching_materials = materials_map.get(current_op, [])
matching_materials_of(mmap, current_op) == DictGet(mmap, current_op, <<>>)

\* An inner join: a sales item without a production order is left out.
RECURSIVE sales_loop_inner_join(_, _, _, _, _)
sales_loop_inner_join(sales_reports, orders_map, mmap, i, acc) ==
    IF i > Len(sales_reports) THEN acc
    ELSE LET sales_item == sales_reports[i]
             item == FilteredSalesReportItem(
                         sales_item,
                         etapa_of(orders_map, sales_item.op),
                         matching_materials_of(mmap, sales_item.op))
         IN  sales_loop_inner_join(
                 sales_reports, orders_map, mmap, i + 1,
                 IF sales_item.op \in DOMAIN orders_map
                 THEN Append(acc, item) ELSE acc)

\* for sales_item in sales_reports: ... filtered_sales_list.append(filtered_item)
RECURSIVE sales_loop(_, _, _, _, _)
sales_loop(sales_reports, orders_map, mmap, i, acc) ==
    IF i > Len(sales_reports) THEN acc
    ELSE LET sales_item == sales_reports[i]
             item == FilteredSalesReportItem(
                         sales_item,
                         etapa_of(orders_map, sales_item.op),
                         matching_materials_of(mmap, sales_item.op))
         IN  sales_loop(sales_reports, orders_map, mmap, i + 1,
                        Append(acc, item))

\* Reading order.op raises AttributeError for an order without that attribute.
orders_raise(pending_orders) ==
    \E i \in 1..Len(pending_orders) : ~HasAttr(pending_orders[i], "op")

materials_raise(pending_materials) ==
    \E i \in 1..Len(pending_materials) : ~HasAttr(pending_materials[i], "op")

\* The sales loop raises on a sales item without an attribute it reads and on
\* a matching order without etapa.
sales_raise(sales_reports, orders_map) ==
    \E i \in 1..Len(sales_reports) :
        \/ ~(SalesAttrsRead \subseteq DOMAIN sales_reports[i])
        \/ /\ sales_reports[i].op \in DOMAIN orders_map
           /\ ~HasAttr(orders_map[sales_reports[i].op], "etapa")

\* One call of combine_data: the list it returns, whether its except branch
\* ran, and the materials_map it built.
combine_frame(sales_reports, pending_orders, pending_materials) ==
    IF orders_raise(pending_orders)
    THEN [result |-> <<>>, error |-> TRUE, materials_map |-> defaultdict_list]
    ELSE LET orders_map == orders_map_of(EmptyDict, pending_orders, 1)
             mmap == fill_materials_map(defaultdict_list, pending_materials, 1)
         IN  IF \/ materials_raise(pending_materials)
                \/ sales_raise(sales_reports, orders_map)
             THEN [result |-> <<>>, error |-> TRUE, materials_map |-> mmap]
             ELSE [result |-> sales_loop(sales_reports, orders_map, mmap, 1, <<>>),
                   error |-> FALSE, materials_map |-> mmap]

combine_data(sales_reports, pending_orders, pending_materials) ==
    combine_frame(sales_reports, pending_orders, pending_materials).result

(***************************************************************************)
(* services/scrape_reports.py: _parse_float, _parse_int, _parse_date.      *)
(* A Python str is the sequence of its characters; a float is nan or the   *)
(* decimal numeral of its value: a sign, the digits before the point with  *)
(* no leading zero and the digits after it with no trailing zero.          *)
(***************************************************************************)
PyNone == [type |-> "NoneType", chars |-> <<>>]
PyStr(cs) == [type |-> "str", chars |-> cs]

Digits == {"0", "1", "2", "3", "4", "5", "6", "7", "8", "9"}
Whitespace == {" "}

DigitVal(c) ==
    CASE c = "0" -> 0 [] c = "1" -> 1 [] c = "2" -> 2 [] c = "3" -> 3
      [] c = "4" -> 4 [] c = "5" -> 5 [] c = "6" -> 6 [] c = "7" -> 7
      [] c = "8" -> 8 [] c = "9" -> 9

RECURSIVE lstrip_zeros(_)
lstrip_zeros(ds) ==
    IF ds # <<>> /\ Head(ds) = "0" THEN lstrip_zeros(Tail(ds)) ELSE ds

RECURSIVE rstrip_zeros(_)
rstrip_zeros(ds) ==
    IF ds # <<>> /\ ds[Len(ds)] = "0"
    THEN rstrip_zeros(SubSeq(ds, 1, Len(ds) - 1))
    ELSE ds

\* Equal numbers have equal numerals; -0.0 and 0.0 compare equal in Python.
Float(neg, int_digits, frac_digits) ==
    LET i == lstrip_zeros(int_digits)
        f == rstrip_zeros(frac_digits)
    IN  [cls |-> "finite", neg |-> neg /\ (i # <<>> \/ f # <<>>),
         int |-> i, frac |-> f]
NaN == [cls |-> "nan", neg |-> FALSE, int |-> <<>>, frac |-> <<>>]
Zero == Float(FALSE, <<>>, <<>>)

\* str.strip()
RECURSIVE lstrip(_)
lstrip(cs) ==
    IF cs # <<>> /\ Head(cs) \in Whitespace THEN lstrip(Tail(cs)) ELSE cs

RECURSIVE rstrip(_)
rstrip(cs) ==
    IF cs # <<>> /\ cs[Len(cs)] \in Whitespace
    THEN rstrip(SubSeq(cs, 1, Len(cs) - 1))
    ELSE cs

strip(cs) == rstrip(lstrip(cs))

\* c in s
contains(cs, c) == \E i \in 1..Len(cs) : cs[i] = c

\* s.count(c)
count(cs, c) == Cardinality({i \in 1..Len(cs) : cs[i] = c})

\* s.rfind(c), counted from 1; 0 when c is not in s
rfind(cs, c) ==
    IF contains(cs, c) THEN CHOOSE i \in 1..Len(cs) :
                                /\ cs[i] = c
                                /\ \A j \in (i + 1)..Len(cs) : cs[j] # c
    ELSE 0

\* s.replace(c, new) for a one-character c; new is a sequence of characters
RECURSIVE replace(_, _, _)
replace(cs, c, new) ==
    IF cs = <<>> THEN <<>>
    ELSE (IF Head(cs) = c THEN new ELSE <<Head(cs)>>) \o replace(Tail(cs), c, new)

\* s.split(c): the pieces between the occurrences of c
RECURSIVE split(_, _)
split(cs, c) ==
    IF ~contains(cs, c) THEN <<cs>>
    ELSE LET i == CHOOSE k \in 1..Len(cs) :
                      cs[k] = c /\ \A j \in 1..(k - 1) : cs[j] # c
         IN  <<SubSeq(cs, 1, i - 1)>> \o split(SubSeq(cs, i + 1, Len(cs)), c)

\* "".join(parts)
RECURSIVE join(_)
join(parts) == IF parts = <<>> THEN <<>> ELSE Head(parts) \o join(Tail(parts))

RECURSIVE digits_value(_)
digits_value(ds) ==
    IF ds = <<>> THEN 0
    ELSE 10 * digits_value(SubSeq(ds, 1, Len(ds) - 1)) + DigitVal(ds[Len(ds)])

\* float(s): surrounding whitespace is ignored, then an optional sign, then
\* nan or decimal digits with at most one point and at least one digit;
\* anything else is a ValueError.
float(cs) ==
    LET s == strip(cs)
        signed == s # <<>> /\ Head(s) \in {"-", "+"}
        body == IF signed THEN Tail(s) ELSE s
        neg == signed /\ Head(s) = "-"
        int_frac == split(body, ".")
        all_digits == replace(body, ".", <<>>)
    IN  IF body = <<"n", "a", "n">> THEN Ret(NaN)
        ELSE IF /\ all_digits # <<>>
                /\ \A i \in 1..Len(all_digits) : all_digits[i] \in Digits
                /\ count(body, ".") <= 1
             THEN Ret(Float(neg, int_frac[1],
                            IF Len(int_frac) = 2 THEN int_frac[2] ELSE <<>>))
             ELSE Raise("ValueError")

\* return float(cleaned_value), with no try around it
float_or_raise(cleaned_value) == float(cleaned_value)
\* try: return float(cleaned_value) / except (ValueError, TypeError): return 0.0
float_or_zero(cleaned_value) ==
    LET r == float(cleaned_value)
    IN  IF r.kind = "raise" /\ r.exc \in {"ValueError", "TypeError"}
        THEN Ret(Zero) ELSE r

\* if "," in cleaned_value: a comma alone decides that dots are thousands marks
comma_branch_keeping_dots(cleaned_value) == replace(cleaned_value, ",", <<".">>)
comma_branch(cleaned_value) ==
    replace(replace(cleaned_value, ".", <<>>), ",", <<".">>)

\* elif "." in cleaned_value
dot_branch(cleaned_value) ==
    LET parts == split(cleaned_value, ".")
        last == parts[Len(parts)]
    IN  IF Len(last) = 3 /\ Len(parts) > 1 THEN join(parts)
        ELSE join(SubSeq(parts, 1, Len(parts) - 1)) \o <<".">> \o last

_parse_float(value) ==
    IF value.type # "str" THEN Ret(Zero)
    ELSE LET cleaned_value == strip(value.chars)
         IN  IF cleaned_value = <<>> THEN Ret(Zero)
             ELSE IF contains(cleaned_value, ",")
                  THEN float_or_zero(comma_branch(cleaned_value))
             ELSE IF contains(cleaned_value, ".")
                  THEN float_or_zero(dot_branch(cleaned_value))
             ELSE float_or_zero(cleaned_value)

\* int(x): truncation toward zero; nan has no integer
int(x) ==
    IF x.cls = "nan" THEN Raise("ValueError")
    ELSE Ret(Float(x.neg, x.int, <<>>))

_parse_int(value) ==
    LET float_value == _parse_float(value)
    IN  IF float_value.kind = "raise" THEN float_value ELSE int(float_value.val)

IsLeap(y) == y % 4 = 0 /\ (y % 100 # 0 \/ y % 400 = 0)

DaysInMonth(y, m) ==
    IF m = 2 THEN (IF IsLeap(y) THEN 29 ELSE 28)
    ELSE IF m \in {4, 6, 9, 11} THEN 30 ELSE 31

NonZeroDigits == Digits \ {"0"}

\* %d: 3[0-1] | [1-2]\d | 0[1-9] | [1-9] | " "[1-9]
directive_d(t) ==
    \/ Len(t) = 2 /\ t[1] = "3" /\ t[2] \in {"0", "1"}
    \/ Len(t) = 2 /\ t[1] \in {"1", "2"} /\ t[2] \in Digits
    \/ Len(t) = 2 /\ t[1] = "0" /\ t[2] \in NonZeroDigits
    \/ Len(t) = 1 /\ t[1] \in NonZeroDigits
    \/ Len(t) = 2 /\ t[1] = " " /\ t[2] \in NonZeroDigits

\* %m: 1[0-2] | 0[1-9] | [1-9]
directive_m(t) ==
    \/ Len(t) = 2 /\ t[1] = "1" /\ t[2] \in {"0", "1", "2"}
    \/ Len(t) = 2 /\ t[1] = "0" /\ t[2] \in NonZeroDigits
    \/ Len(t) = 1 /\ t[1] \in NonZeroDigits

\* %y: \d\d
directive_y(t) == Len(t) = 2 /\ t[1] \in Digits /\ t[2] \in Digits

\* %y: 69..99 are 1969..1999, 00..68 are 2000..2068
century(yy) == IF yy <= 68 THEN 2000 + yy ELSE 1900 + yy

\* datetime.strptime(date_str, fmt).date() for a format of three directives
\* separated by "/": the whole text must match, then the calendar date must
\* exist; otherwise ValueError. day_at and month_at give the positions of
\* %d and %m.
strptime(date_str, day_at, month_at) ==
    LET parts == split(date_str, "/")
    IN  IF Len(parts) # 3 THEN Raise("ValueError")
        ELSE LET d == parts[day_at]
                 m == parts[month_at]
                 y == parts[3]
             IN  IF ~(directive_d(d) /\ directive_m(m) /\ directive_y(y))
                 THEN Raise("ValueError")
                 ELSE LET day == digits_value(lstrip(d))
                          month == digits_value(m)
                          year == century(digits_value(y))
                      IN  IF day > DaysInMonth(year, month)
                          THEN Raise("ValueError")
                          ELSE Ret(Date(year, month, day))

\* "%m/%d/%y"
strptime_mdy(date_str) == strptime(date_str, 2, 1)
\* "%d/%m/%y"
strptime_dmy(date_str) == strptime(date_str, 1, 2)

_parse_date(date_str) ==
    IF date_str.type # "str" \/ date_str.chars = <<>>
       \/ strip(date_str.chars) = <<>>
    THEN Ret(NoDate)
    ELSE LET r == strptime_dmy(date_str.chars)
         IN  IF r.kind = "raise" /\ r.exc = "ValueError" THEN Ret(NoDate) ELSE r

\* text.strip() or None
or_None(cs) == IF cs = <<>> THEN PyNone ELSE PyStr(cs)

\* pydantic's validation of a value given for an Optional[date] field: None
\* is kept; of the texts a cell holds here, a str is accepted only as the
\* ISO date YYYY-MM-DD of an existing day, and any other str (a
\* day/month/year text with slashes included) raises ValidationError.
\* (All-digit epoch numerals and datetime texts are not among those texts.)
validate_Optional_date(value) ==
    IF value.type # "str" THEN Ret(NoDate)
    ELSE LET cs == value.chars
             iso == /\ Len(cs) = 10
                    /\ cs[5] = "-" /\ cs[8] = "-"
                    /\ \A i \in {1, 2, 3, 4, 6, 7, 9, 10} : cs[i] \in Digits
         IN  IF ~iso THEN Raise("ValidationError")
             ELSE LET year == digits_value(SubSeq(cs, 1, 4))
                      month == digits_value(SubSeq(cs, 6, 7))
                      day == digits_value(SubSeq(cs, 9, 10))
                  IN  IF /\ year >= 1
                         /\ month \in 1..12
                         /\ day \in 1..DaysInMonth(year, month)
                      THEN Ret(Date(year, month, day))
                      ELSE Raise("ValidationError")

(***************************************************************************)
(* services/scrape_pending_orders.py: the nested _parse_float              *)
(***************************************************************************)
scrape_pending_orders_parse_float(value) ==
    IF value.type # "str" \/ value.chars = <<>> \/ strip(value.chars) = <<>>
    THEN Ret(Zero)
    ELSE LET cleaned_value == strip(value.chars)
             has_dot == contains(cleaned_value, ".")
             has_comma == contains(cleaned_value, ",")
         IN  IF has_dot /\ has_comma
             THEN IF rfind(cleaned_value, ",") > rfind(cleaned_value, ".")
                  THEN float_or_zero(comma_branch(cleaned_value))
                  ELSE float_or_zero(replace(cleaned_value, ",", <<>>))
             ELSE IF has_comma
             THEN IF /\ count(cleaned_value, ",") = 1
                     /\ Len(split(cleaned_value, ",")[2]) \in {1, 2, 3}
                  THEN float_or_zero(replace(cleaned_value, ",", <<".">>))
                  ELSE float_or_zero(replace(cleaned_value, ",", <<>>))
             ELSE IF count(cleaned_value, ".") > 1
             THEN float_or_zero(replace(cleaned_value, ".", <<>>))
             ELSE float_or_zero(cleaned_value)

(***************************************************************************)
(* The HTTP response a fetcher meets, and the HTML table in it.            *)
(*   transport  "ok", or the exception the request raised                  *)
(*   status     the status code of the response                            *)
(*   html       table: a <table id="tableExpo"> is present; trs: its <tr>   *)
(* A <tr> is abstracted to: ncells, its number of <td>; blank, its text is *)
(* all whitespace; op and val, the text of the cells the mapper reads as   *)
(* the join key and as the payload (negociacao, etapa or codigo); date,    *)
(* the characters of each cell the mapper reads as a date.                 *)
(***************************************************************************)
CellCounts == {0, 5, 14, 19}

Header == [ncells |-> 0, blank |-> FALSE, op |-> "", val |-> "", date |-> <<>>]

\* The date texts of a cell: "05/03/24", "31/02/24", "2024-03-05", " ".
DateCells ==
    {<<"0", "5", "/", "0", "3", "/", "2", "4">>,
     <<"3", "1", "/", "0", "2", "/", "2", "4">>,
     <<"2", "0", "2", "4", "-", "0", "3", "-", "0", "5">>,
     <<" ">>}

BodyRows ==
    {[ncells |-> n, blank |-> TRUE, op |-> "", val |-> "", date |-> <<>>] :
         n \in CellCounts}
    \cup {Header}
    \cup {[ncells |-> n, blank |-> FALSE, op |-> o, val |-> v, date |-> <<>>] :
              n \in CellCounts \ {0}, o \in Ops, v \in Vals}
    \cup {[ncells |-> 19, blank |-> FALSE, op |-> "A", val |-> "v1", date |-> d] :
              d \in DateCells}

NoTable == [table |-> FALSE, trs |-> <<>>]

Htmls(maxRows) ==
    {NoTable}
    \cup {[table |-> TRUE, trs |-> <<>>]}
    \cup {[table |-> TRUE, trs |-> <<Header>> \o rows] :
              rows \in SeqUpTo(BodyRows, maxRows)}

TransportErrors == {"ClientConnectionError", "TimeoutError"}
OkStatuses == {200, 304}
ErrorStatuses == {404, 500}

Responses(maxRows) ==
    {[transport |-> t, status |-> 0, html |-> NoTable] : t \in TransportErrors}
    \cup {[transport |-> "ok", status |-> c, html |-> NoTable] :
              c \in ErrorStatuses}
    \cup {[transport |-> "ok", status |-> c, html |-> h] :
              c \in OkStatuses, h \in Htmls(maxRows)}

\* aiohttp.ClientError and its subclasses; asyncio.TimeoutError is not one.
IsClientError(e) == e \in {"ClientConnectionError", "ClientResponseError"}

\* response.raise_for_status(): aiohttp raises ClientResponseError when the
\* status is 400 or above.
raise_for_status(status) == status >= 400

\* Column contracts of the three mappers.
SalesMinCells == 14
SalesMaxIndex == 18
ProdMaxIndex == 8
MaterialsMaxIndex == 11

\* table.find_all("tr")[1:]
skip_header(trs) == IF Len(trs) = 0 THEN <<>> ELSE Tail(trs)

\* The row loop of scrape_sales_pending_orders.
RECURSIVE sales_rows(_, _, _)
sales_rows(trs, i, items_found) ==
    IF i > Len(trs) THEN Ret(items_found)
    ELSE LET tr == trs[i]
         IN  IF tr.blank THEN Ret(items_found)
             ELSE IF tr.ncells >= SalesMinCells
             THEN IF tr.ncells <= SalesMaxIndex THEN Raise("IndexError")
                  ELSE LET d == validate_Optional_date(or_None(strip(tr.date)))
                       IN  IF d.kind = "raise" THEN d
                           ELSE sales_rows(trs, i + 1,
                                    Append(items_found,
                                           [SalesReportItem(tr.op, tr.val)
                                                EXCEPT !.emissao_pv = d.val,
                                                       !.previsao = d.val]))
             ELSE sales_rows(trs, i + 1, items_found)

\* The row loop of scrape_prod_pending_orders.
RECURSIVE prod_rows(_, _, _)
prod_rows(trs, i, items_found) ==
    IF i > Len(trs) THEN Ret(items_found)
    ELSE LET tr == trs[i]
         IN  IF tr.ncells > 0
             THEN IF tr.ncells <= ProdMaxIndex THEN Raise("IndexError")
                  ELSE LET d == _parse_date(PyStr(strip(tr.date)))
                       IN  IF d.kind = "raise" THEN d
                           ELSE prod_rows(trs, i + 1,
                                    Append(items_found,
                                           [PendingOrdersItem(tr.op, tr.val)
                                                EXCEPT !.criacao = d.val,
                                                       !.prazo = d.val]))
             ELSE prod_rows(trs, i + 1, items_found)

\* The row loop of scrape_pending_materials.
RECURSIVE materials_rows(_, _, _)
materials_rows(trs, i, items_found) ==
    IF i > Len(trs) THEN Ret(items_found)
    ELSE LET tr == trs[i]
         IN  IF tr.ncells > 0
             THEN IF tr.ncells <= MaterialsMaxIndex THEN Raise("IndexError")
                  ELSE LET d == _parse_date(PyStr(strip(tr.date)))
                       IN  IF d.kind = "raise" THEN d
                           ELSE materials_rows(trs, i + 1,
                                    Append(items_found,
                                           [PendingMaterialsItem(tr.op, tr.val)
                                                EXCEPT !.criacao = d.val,
                                                       !.previsao_op = d.val,
                                                       !.previsao_mp = d.val]))
             ELSE materials_rows(trs, i + 1, items_found)

\* The body of a fetcher's try block: the request, raise_for_status, the
\* table lookup (find returns None when the table is absent, and
\* None.find_all raises AttributeError), then the row loop of the source.
try_body(source, resp) ==
    IF resp.transport # "ok" THEN Raise(resp.transport)
    ELSE IF raise_for_status(resp.status) THEN Raise("ClientResponseError")
    ELSE IF ~resp.html.table THEN Raise("AttributeError")
    ELSE LET trs == skip_header(resp.html.trs)
         IN  CASE source = "sales" -> sales_rows(trs, 1, <<>>)
               [] source = "prod" -> prod_rows(trs, 1, <<>>)
               [] source = "materials" -> materials_rows(trs, 1, <<>>)

\* except Exception: every exception is logged and turned into [].
except_Exception(out) ==
    IF out.kind = "raise" THEN Suppressed(out.exc) ELSE out

\* except aiohttp.ClientError as e: logger.error(...); return []
except_ClientError(out) ==
    IF out.kind = "raise" /\ IsClientError(out.exc) THEN Suppressed(out.exc)
    ELSE out

scrape_sales_pending_orders(resp) == except_ClientError(try_body("sales", resp))

scrape_prod_pending_orders(resp) == except_ClientError(try_body("prod", resp))

scrape_pending_materials(resp) == except_ClientError(try_body("materials", resp))

scrape(source, resp) ==
    CASE source = "sales" -> scrape_sales_pending_orders(resp)
      [] source = "prod" -> scrape_prod_pending_orders(resp)
      [] source = "materials" -> scrape_pending_materials(resp)

(***************************************************************************)
(* services/scrape_reports.py: get_combined_report_data                    *)
(***************************************************************************)
\* The order of the tasks list, which is the order gather returns results in.
TaskOrder == <<"sales", "prod", "materials">>

\* Looks at the first result only.
first_failed_sales_only(results) ==
    IF results["sales"].kind = "raise" THEN results["sales"].exc ELSE "none"

\* for result in [sales_data, orders_data, materials_data]:
\*     if isinstance(result, Exception): raise result
\* The exception that loop raises, "none" when it raises nothing.
first_failed(results) ==
    LET failed == {i \in 1..3 : results[TaskOrder[i]].kind = "raise"}
    IN  IF failed = {} THEN "none"
        ELSE results[TaskOrder[CHOOSE i \in failed : \A j \in failed : i <= j]].exc

\* One call of get_combined_report_data once gather has returned. An exception
\* raised in the try block is logged by `except Exception`; the function then
\* runs `return combined_list`, a name the try block did not bind, which raises
\* UnboundLocalError.
combined_report(results) ==
    IF first_failed(results) # "none"
    THEN [ret |-> Raise("UnboundLocalError"), combine_ran |-> FALSE,
          combine_error |-> FALSE, materials_map |-> materials_map]
    ELSE LET frame == combine_frame(results["sales"].val, results["prod"].val,
                                    results["materials"].val)
         IN  [ret |-> Ret(frame.result), combine_ran |-> TRUE,
              combine_error |-> frame.error,
              materials_map |-> frame.materials_map]

(***************************************************************************)
(* api/routes/report_router.py                                             *)
(***************************************************************************)
SingleEndpoints == {"pending_sales", "pending_orders", "pending_materials"}
ConsolidatedEndpoints == {"filtered_sales_report", "filtered_sales_report/export"}
Endpoints == SingleEndpoints \cup ConsolidatedEndpoints

\* The handlers with init_date and end_date query parameters, and the
\* handlers that read request.app.state.csrf_token.
DatedEndpoints == Endpoints \ {"pending_materials"}
CsrfEndpoints == {"pending_orders"} \cup ConsolidatedEndpoints

SourcesOf(e) ==
    CASE e = "pending_sales" -> {"sales"}
      [] e = "pending_orders" -> {"prod"}
      [] e = "pending_materials" -> {"materials"}
      [] e \in ConsolidatedEndpoints -> Sources

\* core/session_manager.py, lifespan: after the login POST is answered 200
\* the session is stored on app.state; the token read from the login page
\* stays in a local variable.
lifespan_app_state == {"http_client"}

\* date + timedelta(days=n), a month at a time
RECURSIVE plus_days(_, _)
plus_days(d, n) ==
    LET last == DaysInMonth(d.year, d.month)
    IN  IF d.day + n \in 1..last THEN Date(d.year, d.month, d.day + n)
        ELSE IF n > 0
             THEN plus_days(IF d.month < 12 THEN Date(d.year, d.month + 1, 1)
                            ELSE Date(d.year + 1, 1, 1),
                            n - (last - d.day + 1))
        ELSE plus_days(IF d.month > 1
                       THEN Date(d.year, d.month - 1,
                                 DaysInMonth(d.year, d.month - 1))
                       ELSE Date(d.year - 1, 12, 31),
                       n + d.day)

next_day(d) == plus_days(d, 1)

DigitChar(n) == CHOOSE c \in Digits : DigitVal(c) = n

two_digits(n) == <<DigitChar(n \div 10), DigitChar(n % 10)>>

four_digits(n) == two_digits(n \div 100) \o two_digits(n % 100)

\* d.strftime("%d/%m/%Y")
strftime_dmY(d) ==
    two_digits(d.day) \o <<"/">> \o two_digits(d.month) \o <<"/">>
        \o four_digits(d.year)

\* init_date_str = (date.today() - timedelta(days=15)).strftime("%d/%m/%Y")
\* end_date_str = (date.today() + timedelta(days=90)).strftime("%d/%m/%Y")
DefaultDaysBack == 15
DefaultDaysAhead == 90
default_init_date_str(day) == strftime_dmY(plus_days(day, -DefaultDaysBack))
default_end_date_str(day) == strftime_dmY(plus_days(day, DefaultDaysAhead))

\* A query parameter of type Optional[date].
NoParam == [given |-> FALSE, date |-> NoDate]
Param(d) == [given |-> TRUE, date |-> d]

NoDates == <<<<>>, <<>>>>

\* The first lines of a handler, up to the call of its fetcher: the two
\* locals after defaulting, the dates passed on, and the exception of the
\* app.state.csrf_token read when app.state has no such attribute.
handler_entry(e, p_init, p_end) ==
    LET i == IF p_init.given THEN strftime_dmY(p_init.date) ELSE init_date_str
        f == IF p_end.given THEN strftime_dmY(p_end.date) ELSE end_date_str
        no_token == e \in CsrfEndpoints /\ "csrf_token" \notin app_state
    IN  [init_date |-> IF e \in DatedEndpoints THEN i ELSE <<>>,
         end_date |-> IF e \in DatedEndpoints THEN f ELSE <<>>,
         exc |-> IF no_token THEN "AttributeError" ELSE "none",
         sent |-> IF no_token \/ e \notin DatedEndpoints THEN NoDates
                  ELSE IF e = "filtered_sales_report" THEN <<i, f>>
                  ELSE <<init_date_str, end_date_str>>]

SourceOf(e) == CHOOSE s \in Sources : SourcesOf(e) = {s}

NoHttp == [status |-> 0, body |-> <<>>, cause |-> "none"]

\* except Exception as e: raise HTTPException(status_code=500, detail=f"...{e}")
http_500(e) == [status |-> 500, body |-> <<>>, cause |-> e]

\* get_sales_pending_orders, get_prod_pending_orders, get_pending_materials:
\* the HTTPException(404) raised for an empty report is raised inside the try
\* block, so the handler's own `except Exception` catches it and answers 500.
single_source_handler(out) ==
    IF out.kind = "raise" THEN http_500(out.exc)
    ELSE IF Len(out.val) = 0 THEN http_500("HTTPException(404)")
    ELSE [status |-> 200, body |-> out.val, cause |-> "none"]

\* get_filtered_sales_report
filtered_sales_report_handler(r) ==
    IF r.kind = "raise" THEN http_500(r.exc)
    ELSE [status |-> 200, body |-> r.val, cause |-> "none"]

(***************************************************************************)
(* Spec: requests through the router                                       *)
(***************************************************************************)
\* What each fetcher can give its caller, over the bounded responses.
SalesOutcomes == {scrape_sales_pending_orders(r) : r \in Responses(MaxPipeRows)}
ProdOutcomes == {scrape_prod_pending_orders(r) : r \in Responses(MaxPipeRows)}
MaterialsOutcomes == {scrape_pending_materials(r) : r \in Responses(MaxPipeRows)}

OutcomesOf(s) ==
    CASE s = "sales" -> SalesOutcomes
      [] s = "prod" -> ProdOutcomes
      [] s = "materials" -> MaterialsOutcomes

NoTask == [st |-> "none", out |-> NoOutcome]
NoResponse == [transport |-> "none", status |-> 0, html |-> NoTable]

results == [s \in Sources |-> task[s].out]

FetchIdle ==
    /\ fetch_src = "none"
    /\ fetch_resp = NoResponse
    /\ fetch_out = NoOutcome

ParseIdle ==
    /\ parse_fn = "none"
    /\ parse_in = PyNone
    /\ parse_out = NoOutcome

\* The day the process starts, and the dates a client may supply.
BootDay == Date(2024, 12, 30)
ParamDates == {NoParam, Param(Date(2024, 3, 5))}

\* report_router is imported: its two module-level strings are computed.
ModuleLoaded ==
    /\ today = BootDay
    /\ init_date_str = default_init_date_str(BootDay)
    /\ end_date_str = default_end_date_str(BootDay)

NoRequest ==
    /\ init_date = <<>>
    /\ end_date = <<>>
    /\ sent_dates = NoDates
    /\ params = <<NoParam, NoParam>>

NoReport ==
    /\ materials_map = EmptyDict
    /\ combine_ran = FALSE
    /\ combine_error = FALSE
    /\ ret = NoOutcome
    /\ prev_ret = NoOutcome
    /\ rerun = FALSE
    /\ http = NoHttp

Init ==
    /\ endpoint = "none"
    /\ pc = "starting"
    /\ app_state = {}
    /\ task = [s \in Sources |-> NoTask]
    /\ ModuleLoaded
    /\ NoRequest
    /\ NoReport
    /\ FetchIdle
    /\ ParseIdle

\* lifespan runs to its yield (login answered 200), or meets a ClientError or
\* an IOError and ends the process with sys.exit.
Lifespan ==
    /\ pc = "starting"
    /\ \E login_ok \in BOOLEAN :
           IF login_ok
           THEN pc' = "idle" /\ app_state' = lifespan_app_state
           ELSE pc' = "exited" /\ app_state' = app_state
    /\ UNCHANGED <<endpoint, task, materials_map, combine_ran, combine_error,
                   ret, prev_ret, rerun, http, fetch_src, fetch_resp,
                   fetch_out, parse_vars, init_date_str, end_date_str, today,
                   request_vars>>

\* Midnight passes while the process is up.
Tick ==
    /\ pc = "idle"
    /\ today \in {plus_days(BootDay, k) : k \in 0..(MaxDays - 1)}
    /\ today' = next_day(today)
    /\ UNCHANGED <<endpoint, pc, task, materials_map, combine_ran,
                   combine_error, ret, prev_ret, rerun, http, fetch_src,
                   fetch_resp, fetch_out, parse_vars, module_vars,
                   request_vars>>

\* A request arrives and its handler runs up to the await of its fetcher, or
\* to its except branch when the app.state.csrf_token read fails.
StartRequest(e, p_init, p_end) ==
    /\ pc = "idle"
    /\ e \in DatedEndpoints \/ (p_init = NoParam /\ p_end = NoParam)
    /\ endpoint' = e
    /\ params' = <<p_init, p_end>>
    /\ LET h == handler_entry(e, p_init, p_end)
       IN  /\ init_date' = h.init_date
           /\ end_date' = h.end_date
           /\ sent_dates' = h.sent
           /\ IF h.exc # "none"
              THEN /\ pc' = "responded"
                   /\ http' = http_500(h.exc)
                   /\ task' = task
              ELSE /\ pc' = "fetching"
                   /\ http' = http
                   /\ task' = [s \in Sources |->
                                  IF s \in SourcesOf(e)
                                  THEN [st |-> "pending", out |-> NoOutcome]
                                  ELSE NoTask]
    /\ UNCHANGED <<materials_map, combine_ran, combine_error, ret, prev_ret,
                   rerun, fetch_src, fetch_resp, fetch_out, parse_vars,
                   module_vars, today>>

\* The event loop runs a fetcher up to its HTTP request.
FetcherStart(s) ==
    /\ pc = "fetching"
    /\ task[s].st = "pending"
    /\ task' = [task EXCEPT ![s].st = "running"]
    /\ UNCHANGED <<parse_vars, module_vars, today, request_vars,
                   endpoint, pc, materials_map, combine_ran, combine_error,
                   ret, prev_ret, rerun, http, fetch_src, fetch_resp, fetch_out>>

\* The response arrives and the fetcher runs to its end.
FetcherComplete(s) ==
    /\ pc = "fetching"
    /\ task[s].st = "running"
    /\ \E out \in OutcomesOf(s) :
           task' = [task EXCEPT ![s] = [st |-> "done", out |-> out]]
    /\ UNCHANGED <<parse_vars, module_vars, today, request_vars,
                   endpoint, pc, materials_map, combine_ran, combine_error,
                   ret, prev_ret, rerun, http, fetch_src, fetch_resp, fetch_out>>

\* results = await asyncio.gather(*tasks): without return_exceptions gather
\* returns control as soon as one task has raised.
gather_first_exception(tasks) ==
    \/ \A s \in Sources : tasks[s].st = "done"
    \/ \E s \in Sources : tasks[s].st = "done" /\ tasks[s].out.kind = "raise"
\* results = await asyncio.gather(*tasks, return_exceptions=True)
gather(tasks) == \A s \in Sources : tasks[s].st = "done"

\* gather returns once the three tasks are done; get_combined_report_data runs
\* to its end and get_filtered_sales_report answers.
EvaluateAndRespond ==
    /\ pc = "fetching"
    /\ endpoint = "filtered_sales_report"
    /\ gather(task)
    /\ LET frame == combined_report(results)
       IN  /\ ret' = frame.ret
           /\ combine_ran' = frame.combine_ran
           /\ combine_error' = frame.combine_error
           /\ materials_map' = frame.materials_map
           /\ http' = filtered_sales_report_handler(frame.ret)
    /\ pc' = "responded"
    /\ UNCHANGED <<parse_vars, module_vars, today, request_vars,
                   endpoint, task, prev_ret, rerun, fetch_src, fetch_resp,
                   fetch_out>>

\* The awaited fetcher is done and the single-source handler answers.
SingleRespond ==
    /\ pc = "fetching"
    /\ endpoint \in SingleEndpoints
    /\ task[SourceOf(endpoint)].st = "done"
    /\ http' = single_source_handler(task[SourceOf(endpoint)].out)
    /\ pc' = "responded"
    /\ UNCHANGED <<parse_vars, module_vars, today, request_vars,
                   endpoint, task, materials_map, combine_ran, combine_error,
                   ret, prev_ret, rerun, fetch_src, fetch_resp, fetch_out>>

\* The request is over; nothing of it is kept.
NextRequest ==
    /\ pc = "responded"
    /\ ~rerun
    /\ endpoint' = "none"
    /\ pc' = "idle"
    /\ task' = [s \in Sources |-> NoTask]
    /\ materials_map' = EmptyDict
    /\ combine_ran' = FALSE
    /\ combine_error' = FALSE
    /\ ret' = NoOutcome
    /\ http' = NoHttp
    /\ init_date' = <<>>
    /\ end_date' = <<>>
    /\ sent_dates' = NoDates
    /\ params' = <<NoParam, NoParam>>
    /\ UNCHANGED <<prev_ret, rerun, fetch_src, fetch_resp, fetch_out,
                   parse_vars, module_vars, today>>

\* The process from its start: lifespan, then one request at a time. With
\* app.state as lifespan leaves it, the handlers of CsrfEndpoints end at
\* their csrf_token read.
Next ==
    \/ Lifespan
    \/ Tick
    \/ \E e \in Endpoints, p_init \in ParamDates, p_end \in ParamDates :
           StartRequest(e, p_init, p_end)
    \/ \E s \in Sources : FetcherStart(s)
    \/ \E s \in Sources : FetcherComplete(s)
    \/ SingleRespond
    \/ NextRequest

Spec == Init /\ [][Next]_vars

(***************************************************************************)
(* SpecReport: one call of get_combined_report_data, from the creation of  *)
(* its three tasks to the answer get_filtered_sales_report makes of its    *)
(* outcome.                                                                *)
(***************************************************************************)
InitReport ==
    /\ endpoint = "filtered_sales_report"
    /\ pc = "fetching"
    /\ app_state = lifespan_app_state
    /\ task = [s \in Sources |-> [st |-> "pending", out |-> NoOutcome]]
    /\ ModuleLoaded
    /\ init_date = init_date_str
    /\ end_date = end_date_str
    /\ sent_dates = <<init_date_str, end_date_str>>
    /\ params = <<NoParam, NoParam>>
    /\ NoReport
    /\ FetchIdle
    /\ ParseIdle

NextReport ==
    \/ \E s \in Sources : FetcherStart(s)
    \/ \E s \in Sources : FetcherComplete(s)
    \/ EvaluateAndRespond

SpecReport == InitReport /\ [][NextReport]_vars

(***************************************************************************)
(* SpecCombine: the combine stage on bounded inputs. The three fetchers     *)
(* have returned the lists drawn here; the stage is run, then run again on  *)
(* the same lists.                                                          *)
(***************************************************************************)
\* Records of another shape than the declared item types: a sales item
\* without op, an order without etapa.
MisshapenSales == [cliente |-> "cliente", negociacao |-> "v1"]
MisshapenOrder == [op |-> "A", cliente |-> "cliente"]

SalesInputs ==
    {SalesReportItem("A", "v1"), SalesReportItem("B", "v2"), MisshapenSales}
OrderInputs ==
    {PendingOrdersItem("A", "v1"), PendingOrdersItem("A", "v2"),
     PendingOrdersItem("B", "v1"), MisshapenOrder}
MaterialInputs ==
    {PendingMaterialsItem("A", "v1"), PendingMaterialsItem("A", "v2"),
     PendingMaterialsItem("B", "v1")}

InitCombine ==
    /\ endpoint = "filtered_sales_report"
    /\ pc = "fetching"
    /\ \E sl \in SeqUpTo(SalesInputs, MaxSales),
          ol \in SeqUpTo(OrderInputs, MaxOrders),
          ml \in SeqUpTo(MaterialInputs, MaxMaterials) :
           task = [s \in Sources |->
                      [st |-> "done",
                       out |-> Ret(CASE s = "sales" -> sl
                                     [] s = "prod" -> ol
                                     [] s = "materials" -> ml)]]
    /\ app_state = lifespan_app_state
    /\ ModuleLoaded
    /\ NoRequest
    /\ NoReport
    /\ FetchIdle
    /\ ParseIdle

\* The same three lists are combined a second time.
Rerun ==
    /\ pc = "responded"
    /\ ~rerun
    /\ rerun' = TRUE
    /\ prev_ret' = ret
    /\ pc' = "fetching"
    /\ ret' = NoOutcome
    /\ http' = NoHttp
    /\ combine_ran' = FALSE
    /\ combine_error' = FALSE
    /\ UNCHANGED <<parse_vars, module_vars, today, request_vars,
                   endpoint, task, materials_map, fetch_src, fetch_resp,
                   fetch_out>>

NextCombine ==
    \/ EvaluateAndRespond
    \/ Rerun

SpecCombine == InitCombine /\ [][NextCombine]_vars

(***************************************************************************)
(* SpecFetch: one fetcher called directly on a bounded response.           *)
(***************************************************************************)
InitFetch ==
    /\ endpoint = "none"
    /\ pc = "idle"
    /\ task = [s \in Sources |-> NoTask]
    /\ app_state = lifespan_app_state
    /\ ModuleLoaded
    /\ NoRequest
    /\ NoReport
    /\ FetchIdle
    /\ ParseIdle

FetchCall(s) ==
    /\ fetch_src = "none"
    /\ \E r \in Responses(MaxRows) :
           /\ fetch_resp' = r
           /\ fetch_out' = scrape(s, r)
    /\ fetch_src' = s
    /\ UNCHANGED <<parse_vars, module_vars, today, request_vars,
                   endpoint, pc, task, materials_map, combine_ran,
                   combine_error, ret, prev_ret, rerun, http>>

FetchReturn ==
    /\ fetch_src # "none"
    /\ fetch_src' = "none"
    /\ fetch_resp' = NoResponse
    /\ fetch_out' = NoOutcome
    /\ UNCHANGED <<parse_vars, module_vars, today, request_vars,
                   endpoint, pc, task, materials_map, combine_ran,
                   combine_error, ret, prev_ret, rerun, http>>

NextFetch ==
    \/ \E s \in Sources : FetchCall(s)
    \/ FetchReturn

SpecFetch == InitFetch /\ [][NextFetch]_vars

(***************************************************************************)
(* SpecParse: one parser called directly on a bounded argument.            *)
(***************************************************************************)
\* Cell texts: every text of up to MaxLen characters of Alphabet, and the
\* grouped numerals of up to MaxGroups thousands groups and up to MaxFrac
\* fraction digits, written with the digits of PatDigits.
Alphabet == {"0", "5", ".", ",", "-", " ", "n", "a"}
PatDigits == {"0", "5"}
GroupTexts == {<<"0", "0", "0">>, <<"0", "5", "0">>, <<"5", "5", "5">>}

NonEmptyUpTo(S, n) == SeqUpTo(S, n) \ {<<>>}

RECURSIVE grouped_tail(_, _)
grouped_tail(groups, sep) ==
    IF groups = <<>> THEN <<>>
    ELSE <<sep>> \o Head(groups) \o grouped_tail(Tail(groups), sep)

Grouped(head, groups, sep, point, frac) ==
    head \o grouped_tail(groups, sep) \o <<point>> \o frac

GroupedTexts(sep, point) ==
    {Grouped(head, groups, sep, point, frac) :
        head \in NonEmptyUpTo(PatDigits, 3),
        groups \in SeqUpTo(GroupTexts, MaxGroups),
        frac \in NonEmptyUpTo(PatDigits, MaxFrac)}

\* Numerals with one kind of separator: 2 to MaxGroups + 2 pieces of 1 to 4
\* digits joined by sep.
Pieces ==
    {<<"5">>, <<"5", "0">>, <<"0", "5", "0">>, <<"5", "0", "0", "5">>}

OneSeparatorTexts(sep) ==
    {Head(pieces) \o grouped_tail(Tail(pieces), sep) :
        pieces \in {ps \in SeqUpTo(Pieces, MaxGroups + 2) : Len(ps) >= 2}}

NumberInputs ==
    {PyNone}
        \cup {PyStr(t) : t \in SeqUpTo(Alphabet, MaxLen)}
        \cup {PyStr(t) : t \in GroupedTexts(".", ",")}
        \cup {PyStr(t) : t \in GroupedTexts(",", ".")}
        \cup {PyStr(t) : t \in OneSeparatorTexts(".")}
        \cup {PyStr(t) : t \in OneSeparatorTexts(",")}

\* Date cell texts: a day, a month and a year numeral around a separator,
\* with or without surrounding blanks, and texts that are no date at all.
DayTexts ==
    {<<"0", "5">>, <<"5">>, <<" ", "5">>, <<"2", "9">>, <<"3", "1">>,
     <<"3", "2">>, <<"0", "0">>, <<"0", "3">>, <<>>, <<"a">>}
MonthTexts ==
    {<<"0", "3">>, <<"3">>, <<"0", "2">>, <<"0", "4">>, <<"0", "5">>,
     <<"1", "2">>, <<"1", "3">>, <<"0">>}
YearTexts ==
    {<<"2", "4">>, <<"2", "3">>, <<"6", "8">>, <<"6", "9">>, <<"0", "0">>,
     <<"2", "0", "2", "4">>, <<"4">>}
Pads == {<<>>, <<" ">>}

DateInputs ==
    {PyNone, PyStr(<<>>), PyStr(<<" ">>), PyStr(<<" ", " ">>),
     PyStr(<<"n", "o", "t", "-", "a", "-", "d", "a", "t", "e">>)}
        \cup {PyStr(l \o d \o <<sep>> \o m \o <<sep>> \o y \o r) :
                  l \in Pads, d \in DayTexts, sep \in {"/", "-"},
                  m \in MonthTexts, y \in YearTexts, r \in Pads}

FloatParsers == {"_parse_float", "scrape_pending_orders._parse_float"}
Parsers == FloatParsers \cup {"_parse_int", "_parse_date"}

InputsOf(fn) == IF fn = "_parse_date" THEN DateInputs ELSE NumberInputs

parse(fn, value) ==
    CASE fn = "_parse_float" -> _parse_float(value)
      [] fn = "scrape_pending_orders._parse_float" ->
             scrape_pending_orders_parse_float(value)
      [] fn = "_parse_int" -> _parse_int(value)
      [] fn = "_parse_date" -> _parse_date(value)

InitParse ==
    /\ endpoint = "none"
    /\ pc = "idle"
    /\ task = [s \in Sources |-> NoTask]
    /\ app_state = lifespan_app_state
    /\ ModuleLoaded
    /\ NoRequest
    /\ NoReport
    /\ FetchIdle
    /\ ParseIdle

ParseCall(fn) ==
    /\ parse_fn = "none"
    /\ \E value \in InputsOf(fn) :
           /\ parse_in' = value
           /\ parse_out' = parse(fn, value)
    /\ parse_fn' = fn
    /\ UNCHANGED <<endpoint, pc, task, materials_map, combine_ran,
                   combine_error, ret, prev_ret, rerun, http, fetch_src,
                   fetch_resp, fetch_out, module_vars, today, request_vars>>

ParseReturn ==
    /\ parse_fn # "none"
    /\ parse_fn' = "none"
    /\ parse_in' = PyNone
    /\ parse_out' = NoOutcome
    /\ UNCHANGED <<endpoint, pc, task, materials_map, combine_ran,
                   combine_error, ret, prev_ret, rerun, http, fetch_src,
                   fetch_resp, fetch_out, module_vars, today, request_vars>>

NextParse ==
    \/ \E fn \in Parsers : ParseCall(fn)
    \/ ParseReturn

SpecParse == InitParse /\ [][NextParse]_vars

(***************************************************************************)
(* Properties                                                              *)
(***************************************************************************)
Consolidated == endpoint = "filtered_sales_report" /\ pc = "responded"

Failed == {s \in Sources : task[s].out.kind = "raise"}

sales_in == task["sales"].out.val
orders_in == task["prod"].out.val
materials_in == task["materials"].out.val

\* The three inputs are lists of the declared item types.
WellTyped ==
    /\ \A i \in 1..Len(sales_in) : SalesAttrsRead \subseteq DOMAIN sales_in[i]
    /\ \A i \in 1..Len(orders_in) : {"op", "etapa"} \subseteq DOMAIN orders_in[i]
    /\ \A i \in 1..Len(materials_in) : HasAttr(materials_in[i], "op")

Combined == Consolidated /\ Failed = {} /\ WellTyped

\* C1: when exactly one of the three fetchers raises and the other two
\* return, get_combined_report_data raises instead of returning a list,
\* combine_data is not run, and the handler answers 500 without records.
C1_OneFailureFailsReport ==
    (Consolidated /\ Cardinality(Failed) = 1)
        => /\ ret.kind = "raise"
           /\ ~combine_ran
           /\ http.status = 500
           /\ http.body = <<>>

C1_Witness ==
    /\ Consolidated
    /\ Cardinality(Failed) = 1
    /\ \E s \in Sources \ Failed : Len(task[s].out.val) > 0
    /\ http.status = 500

\* C2: on three lists of the declared item types, combine_data returns as
\* many records as there are sales items, and the i-th record carries the
\* op and the other sales fields of the i-th sales item.
C2_SalesDrivenLeftJoin ==
    Combined
        => /\ ret.kind = "return"
           /\ Len(ret.val) = Len(sales_in)
           /\ \A i \in 1..Len(sales_in) :
                  \A f \in SalesAttrsRead : ret.val[i][f] = sales_in[i][f]

C2_Witness ==
    /\ Combined
    /\ Len(sales_in) = 2
    /\ Len(ret.val) = 2
    /\ sales_in[1] # sales_in[2]
    /\ \E i \in 1..2 : \A j \in 1..Len(orders_in) : orders_in[j].op # sales_in[i].op

\* C3: the etapa of each consolidated record is "N/A" when no production
\* order has the op of its sales item, and otherwise the etapa of a
\* production order whose op equals that op.
C3_EtapaByExactOp ==
    Combined
        => \A i \in 1..Len(sales_in) :
               LET matches == {j \in 1..Len(orders_in) :
                                   orders_in[j].op = sales_in[i].op}
               IN  IF matches = {} THEN ret.val[i].etapa = "N/A"
                   ELSE \E j \in matches : ret.val[i].etapa = orders_in[j].etapa

C3_Witness ==
    /\ Combined
    /\ Len(ret.val) = 2
    /\ ret.val[1].etapa = "v1"
    /\ ret.val[2].etapa = "N/A"
    /\ Len(orders_in) > 0

OfOp(materials, o) ==
    LET same_op(m) == m.op = o IN SelectSeq(materials, same_op)

\* C4: materiais_pendentes of each consolidated record is the list of the
\* pending materials whose op equals the op of its sales item, in the order
\* they were fetched (empty when there is none), and a material whose op is
\* the op of no sales item is in no record.
C4_MaterialsByOp ==
    Combined
        => /\ \A i \in 1..Len(sales_in) :
                  ret.val[i].materiais_pendentes = OfOp(materials_in, sales_in[i].op)
           /\ \A j \in 1..Len(materials_in) :
                  (\A i \in 1..Len(sales_in) : sales_in[i].op # materials_in[j].op)
                      => \A i \in 1..Len(ret.val) :
                             \A k \in 1..Len(ret.val[i].materiais_pendentes) :
                                 ret.val[i].materiais_pendentes[k] # materials_in[j]

C4_Witness ==
    /\ Combined
    /\ Len(ret.val) = 1
    /\ ret.val[1].op = "A"
    /\ materials_in = <<PendingMaterialsItem("A", "v1"), PendingMaterialsItem("B", "v1")>>
    /\ ret.val[1].materiais_pendentes = <<PendingMaterialsItem("A", "v1")>>

FetchFailedHttp ==
    \/ fetch_resp.transport \in TransportErrors
    \/ fetch_resp.transport = "ok" /\ fetch_resp.status \notin 200..299

\* C6: a fetcher whose HTTP call meets a transport error or a response with a
\* status outside 2xx returns an empty collection and does not raise.
C6_FailedCallGivesEmpty ==
    (fetch_src # "none" /\ FetchFailedHttp)
        => fetch_out.kind = "return" /\ fetch_out.val = <<>>

\* C7: when the response is read and its HTML has no table tableExpo, the
\* fetcher raises (the AttributeError of the lookup leaves it) and does not
\* return an empty collection.
C7_MissingTableRaises ==
    (/\ fetch_src # "none"
     /\ fetch_resp.transport = "ok"
     /\ ~raise_for_status(fetch_resp.status)
     /\ ~fetch_resp.html.table)
        => fetch_out.kind = "raise" /\ fetch_out.exc = "AttributeError"

C7_Witness ==
    /\ fetch_src = "prod"
    /\ fetch_resp.transport = "ok"
    /\ fetch_resp.status = 200
    /\ ~fetch_resp.html.table
    /\ fetch_out = Raise("AttributeError")

\* C8: a single-source endpoint whose fetcher returns zero records answers
\* 404, which differs from the 500 of a processing failure.
C8_ZeroRecordsIsNotFound ==
    (/\ pc = "responded"
     /\ endpoint \in SingleEndpoints
     /\ task[SourceOf(endpoint)].out.kind = "return"
     /\ task[SourceOf(endpoint)].out.val = <<>>)
        => http.status = 404

\* C9: when a fetcher's exception fails the consolidated request, the
\* failure answered to the caller carries an exception a fetcher raised.
C9_FailureCarriesCause ==
    (Consolidated /\ Failed # {})
        => http.cause \in {task[s].out.exc : s \in Failed}

ParsedText == parse_in.chars
LegacyParser == "scrape_pending_orders._parse_float"

AllDigits(t) == \A i \in 1..Len(t) : t[i] \in Digits

\* t is 1 to 3 digits, then groups of sep and 3 digits, then point and at
\* least one digit.
IsGrouped(t, sep, point) ==
    /\ count(t, point) = 1
    /\ LET halves == split(t, point)
           groups == split(halves[1], sep)
       IN  /\ halves[2] # <<>>
           /\ AllDigits(halves[2])
           /\ Len(groups[1]) \in 1..3
           /\ \A i \in 1..Len(groups) : AllDigits(groups[i])
           /\ \A i \in 2..Len(groups) : Len(groups[i]) = 3

FractionOf(t, point) == split(t, point)[2]

\* The number a grouped numeral denotes: the digits before the point,
\* without the group marks, and the digits after it.
GroupedValue(t, sep, point) ==
    Float(FALSE, replace(split(t, point)[1], sep, <<>>), FractionOf(t, point))

C12_DotDecimalGrouped ==
    (/\ parse_fn \in FloatParsers
     /\ parse_in.type = "str"
     /\ IsGrouped(ParsedText, ",", "."))
        => parse_out = Ret(GroupedValue(ParsedText, ",", "."))

\* The characters of t that are no digit, separator, sign or blank.
LettersOf(t) ==
    LET is_letter(c) == c \notin Digits \cup Whitespace \cup {".", ",", "-", "+"}
    IN  SelectSeq(t, is_letter)

\* No reading of t as a number exists: it has no digit, or it has letters;
\* the letters nan are left out, since float() reads them as a float.
NotANumber(t) ==
    /\ LettersOf(t) # <<"n", "a", "n">>
    /\ \/ \A i \in 1..Len(t) : t[i] \notin Digits
       \/ LettersOf(t) # <<>>

IsNumeral(t, max) ==
    /\ Len(t) \in {1, 2}
    /\ AllDigits(t)
    /\ digits_value(t) \in 1..max

\* The date a text of the form day/month/2-digit-year names, NoDate when
\* the text has another form or names no calendar day. The day may be
\* written with a blank in place of a leading zero.
DayMonthYear(t) ==
    LET parts == split(t, "/")
        d == IF Len(parts[1]) = 2 /\ parts[1][1] = " " /\ parts[1][2] # "0"
             THEN Tail(parts[1]) ELSE parts[1]
    IN  IF /\ Len(parts) = 3
           /\ IsNumeral(d, 31)
           /\ IsNumeral(parts[2], 12)
           /\ Len(parts[3]) = 2
           /\ AllDigits(parts[3])
        THEN LET yy == digits_value(parts[3])
                 year == IF yy < 69 THEN 2000 + yy ELSE 1900 + yy
                 month == digits_value(parts[2])
                 day == digits_value(d)
             IN  IF day <= DaysInMonth(year, month) THEN Date(year, month, day)
                 ELSE NoDate
        ELSE NoDate

\* C14: _parse_date returns for every argument and raises nothing; it
\* returns the date named by a text of the form day/month/2-digit-year, and
\* None for None, for an empty or blank text and for every other text.
C14_DayMonthYear ==
    parse_fn = "_parse_date"
        => /\ parse_out.kind = "return"
           /\ parse_out.val = (IF parse_in.type = "str"
                               THEN DayMonthYear(ParsedText) ELSE NoDate)

C14_Witness ==
    /\ parse_fn = "_parse_date"
    /\ parse_in = PyStr(<<"0", "5", "/", "0", "3", "/", "2", "4">>)
    /\ parse_out = Ret(Date(2024, 3, 5))

\* C17: for every cell text _parse_float and _parse_int return and raise
\* nothing, what they return is a number that is not negative, and it is
\* zero for None and for an empty or blank text.
C17_NumericFieldsNonNegative ==
    parse_fn \in {"_parse_float", "_parse_int"}
        => /\ parse_out.kind = "return"
           /\ parse_out.val.cls = "finite"
           /\ ~parse_out.val.neg
           /\ (parse_in.type # "str" \/ strip(ParsedText) = <<>>)
                  => parse_out.val = Zero

FetchedTable ==
    /\ fetch_src # "none"
    /\ fetch_resp.transport = "ok"
    /\ ~raise_for_status(fetch_resp.status)
    /\ fetch_resp.html.table

BodyTrs == skip_header(fetch_resp.html.trs)

\* The body rows before the first one whose text is all whitespace.
BeforeBlank(trs) ==
    LET blanks == {i \in 1..Len(trs) : trs[i].blank}
    IN  IF blanks = {} THEN trs
        ELSE SubSeq(trs, 1, (CHOOSE i \in blanks : \A j \in blanks : i <= j) - 1)

MaxIndexOf(s) ==
    CASE s = "sales" -> SalesMaxIndex
      [] s = "prod" -> ProdMaxIndex
      [] s = "materials" -> MaterialsMaxIndex

\* The rows with a cell at every index the mapper of s reads.
FullRows(trs, s) ==
    LET full(tr) == tr.ncells > MaxIndexOf(s) IN SelectSeq(trs, full)

\* C15: a fetcher that returns the records of a table returns none for the
\* first blank body row or for a row after it: it has at most as many
\* records as there are rows with cells before that blank row.
C15_StopsAtBlankRow ==
    (FetchedTable /\ fetch_out.kind = "return")
        => LET counted(tr) == tr.ncells > 0
           IN  Len(fetch_out.val) <= Len(SelectSeq(BeforeBlank(BodyTrs), counted))

\* C16: a fetcher whose table has rows with fewer cells than its mapper
\* reads raises nothing and returns no record for them: it returns at most
\* as many records as there are rows with every cell read.
C16_ShortRowsSkipped ==
    FetchedTable
        => /\ fetch_out.kind = "return"
           /\ Len(fetch_out.val) <= Len(FullRows(BodyTrs, fetch_src))

\* C18: a request without date parameters passes to its fetcher the range
\* from 15 days before to 30 or 90 days after the day it is served.
C18_DefaultsFollowToday ==
    (/\ pc = "fetching"
     /\ endpoint \in DatedEndpoints
     /\ params = <<NoParam, NoParam>>)
        => /\ sent_dates[1] = strftime_dmY(plus_days(today, -15))
           /\ sent_dates[2] \in {strftime_dmY(plus_days(today, 30)),
                                 strftime_dmY(plus_days(today, 90))}

\* C19: once lifespan has logged in, app.state holds the session and the
\* CSRF token, and no handler answers with the AttributeError of a missing
\* app.state.csrf_token.
C19_TokenExposed ==
    pc \notin {"starting", "exited"}
        => /\ {"http_client", "csrf_token"} \subseteq app_state
           /\ http.cause # "AttributeError"

\* C20: the three fetchers are pending together when the call starts, a
\* task only moves from pending to running to done and keeps its outcome,
\* and combine_data is run and the outcome of the call is set only when all
\* three tasks are done, whether they returned or raised.
C20_AllResolveBeforeEvaluation ==
    /\ \A s \in Sources : task[s].st = "pending"
    /\ []((pc = "responded" \/ combine_ran \/ ret.kind # "none")
              => \A s \in Sources : task[s].st = "done")
    /\ [][\A s \in Sources :
              \/ task'[s] = task[s]
              \/ task[s].st = "pending" /\ task'[s].st = "running"
              \/ task[s].st = "running" /\ task'[s].st = "done"]_vars

C20_Witness ==
    /\ Consolidated
    /\ Cardinality(Failed) = 2
    /\ \E s \in Sources \ Failed :
           task[s].st = "done" /\ Len(task[s].out.val) > 0
    /\ ~combine_ran

\* C21: when several production orders share an op, the etapa of a
\* consolidated record with that op is the etapa of the last such order of
\* the input list, and the run returns without error.
C21_LastOrderWins ==
    Combined
        => /\ ret.kind = "return"
           /\ ~combine_error
           /\ \A i \in 1..Len(sales_in) :
                  LET matches == {j \in 1..Len(orders_in) :
                                      orders_in[j].op = sales_in[i].op}
                      last == CHOOSE j \in matches : \A k \in matches : k <= j
                  IN  Cardinality(matches) > 1
                          => ret.val[i].etapa = orders_in[last].etapa

C21_Witness ==
    /\ Combined
    /\ Len(orders_in) = 2
    /\ orders_in[1].op = orders_in[2].op
    /\ orders_in[1].etapa # orders_in[2].etapa
    /\ \E i \in 1..Len(ret.val) :
           /\ ret.val[i].op = orders_in[2].op
           /\ ret.val[i].etapa = orders_in[2].etapa

DateFieldsOf(s) ==
    CASE s = "sales" -> {"emissao_pv", "previsao"}
      [] s = "prod" -> {"criacao", "prazo"}
      [] s = "materials" -> {"criacao", "previsao_op", "previsao_mp"}

ValidOrAbsent(d) ==
    \/ d = NoDate
    \/ d.month \in 1..12 /\ d.day \in 1..DaysInMonth(d.year, d.month)

\* C22: whatever the text of its date cells, a table whose rows have every
\* cell the mapper reads does not make the fetcher raise, and each date
\* field of each record returned is an existing calendar date or absent.
C22_DateCellsNeverFail ==
    (/\ FetchedTable
     /\ \A i \in 1..Len(BodyTrs) :
            BodyTrs[i].ncells = 0 \/ BodyTrs[i].ncells > MaxIndexOf(fetch_src))
        => /\ fetch_out.kind = "return"
           /\ \A i \in 1..Len(fetch_out.val) :
                  \A f \in DateFieldsOf(fetch_src) :
                      ValidOrAbsent(fetch_out.val[i][f])

\* t is digits around one kind of separator: only digits and sep, at least
\* one sep, and a digit on each side of every sep.
OneSeparator(t, sep) ==
    /\ contains(t, sep)
    /\ \A i \in 1..Len(t) : t[i] \in Digits \cup {sep}
    /\ \A i \in 1..Len(split(t, sep)) : split(t, sep)[i] # <<>>

\* The number of all the digits of t, the separators left out.
Stripped(t, sep) == Float(FALSE, join(split(t, sep)), <<>>)

\* The number read with the single sep of t as the decimal point.
Decimal(t, sep) == Float(FALSE, split(t, sep)[1], split(t, sep)[2])

\* C23: on a numeral with '.' and no ',', each _parse_float returns the
\* number of all its digits when it has more than one '.', or one '.'
\* followed by exactly 3 digits, and otherwise reads the '.' as the decimal
\* point.
C23_DotOnlyRule ==
    (/\ parse_fn \in FloatParsers
     /\ parse_in.type = "str"
     /\ OneSeparator(ParsedText, "."))
        => IF \/ count(ParsedText, ".") > 1
              \/ Len(split(ParsedText, ".")[2]) = 3
           THEN parse_out = Ret(Stripped(ParsedText, "."))
           ELSE parse_out = Ret(Decimal(ParsedText, "."))

\* C24: on a numeral with ',' and no '.', each _parse_float reads the ','
\* as the decimal point when there is exactly one ',' and 1 to 3 digits
\* follow it, and otherwise returns the number of all its digits.
C24_CommaOnlyRule ==
    (/\ parse_fn \in FloatParsers
     /\ parse_in.type = "str"
     /\ OneSeparator(ParsedText, ","))
        => IF /\ count(ParsedText, ",") = 1
              /\ Len(split(ParsedText, ",")[2]) \in 1..3
           THEN parse_out = Ret(Decimal(ParsedText, ","))
           ELSE parse_out = Ret(Stripped(ParsedText, ","))

\* The sources whose HTTP call met a transport error or an error status:
\* the fetcher caught it, or it left the fetcher as the transport's exception.
Errored ==
    {s \in Sources : \/ task[s].out.caught # "none"
                     \/ task[s].out.exc \in TransportErrors}

\* C25: when the HTTP call of exactly one source meets a transport error or
\* an error status and the other two fetchers return, no task hands an
\* exception to get_combined_report_data, which returns the records built
\* with an empty collection for that source: none when it is the sales
\* source, every etapa "N/A" when it is the production orders, every
\* materiais_pendentes empty when it is the materials.
C25_SuppressedErrorGivesEmptySource ==
    (/\ Consolidated
     /\ Cardinality(Errored) = 1
     /\ \A s \in Sources \ Errored : task[s].out.kind = "return")
        => /\ Failed = {}
           /\ \A s \in Errored : task[s].out.val = <<>>
           /\ ret.kind = "return"
           /\ ~combine_error
           /\ Len(ret.val) = Len(sales_in)
           /\ "prod" \in Errored
                  => \A i \in 1..Len(ret.val) : ret.val[i].etapa = "N/A"
           /\ "materials" \in Errored
                  => \A i \in 1..Len(ret.val) :
                         ret.val[i].materiais_pendentes = <<>>

\* C26: when a request to a dated endpoint gives a start or an end date and
\* its handler calls its fetcher, each date passed on is the given date
\* written DD/MM/YYYY, and the module default only where none was given.
C26_SuppliedDatesSent ==
    (/\ pc = "fetching"
     /\ endpoint \in DatedEndpoints
     /\ params[1].given \/ params[2].given)
        => /\ sent_dates[1] = IF params[1].given
                              THEN strftime_dmY(params[1].date)
                              ELSE init_date_str
           /\ sent_dates[2] = IF params[2].given
                              THEN strftime_dmY(params[2].date)
                              ELSE end_date_str

====
